---- MODULE Spec2Model ----
(***************************************************************************)
(* SmartRoute-Sullia: the shortest-path engine (transit/utils.py), the     *)
(* shortest_route view (transit/views.py) and the two OpenRouteService     *)
(* batch commands (build_ors_matrix, refresh_route_distances_with_ors).    *)
(*                                                                         *)
(* Units.  Distances are whole kilometres.  Durations are thousandths of a *)
(* minute, so that round(acc, 2) of utils.py is a real conversion (to a    *)
(* multiple of 10).  An absent number (Python's None) is -1; a function that *)
(* returns None returns NotFound.                                          *)
(***************************************************************************)
EXTENDS Integers, Sequences, FiniteSets, TLC

\* Python's None where a number is expected (Route.duration NULL, prev[origin]).
None == -1
\* dijkstra_shortest_path returned None.
NotFound == [kind |-> "None"]
\* dijkstra_shortest_path has not returned yet.
Pending == [kind |-> "pending"]

\* ---------------------------------------------------------------- bounds
\* Integer ids a request may carry; the BusStop table holds a subset of them.
StopIds == {1, 2, 3}
\* The store holds at most as many Route rows as there are ids.
EdgeCounts == 0..Cardinality(StopIds)
\* Route.distance ranges over 0..MaxDist.
MaxDist == 1
\* --retries ranges over 0..MaxRetries, --limit over 0..MaxLimit (0 = no cap).
MaxRetries == 1
MaxLimit == 2
\* --sleep: none or a positive interval.
SleepValues == {0, 1}
\* Route.duration: NULL or a stored value (an eighth of a minute, exact in binary).
DurationValues == {None, 125}

\* ---------------------------------------------------------------- state
VARIABLES
    prog,        \* which entry point this run executes
    shape,       \* the shape of the bodies the provider serves during this run
    busStops,    \* BusStop table: id -> [latitude, longitude]
    routes,      \* Route table: <<start_stop_id, end_stop_id>> -> [distance, duration]
    routesBefore, \* the Route table as it was when this run started
    api_key,     \* the local api_key once read from settings.OPENROUTESERVICE_API_KEY
    origin, destination,   \* the request's ids
    qpc,         \* position inside shortest_route / dijkstra_shortest_path
    graph,       \* build_graph()'s adjacency: u -> set of <<v, w>>
    graphBuilt,  \* build_graph() has been called
    dist, prev, heap, visited,
    result,      \* dijkstra_shortest_path's return value
    response,    \* what shortest_route answers
    netUsed,     \* some request has been sent to the provider
    call,        \* the request this step sent: [site, kind, ret], or NoCall
    sleptSince,  \* time.sleep(sleep_s) ran since the latest request
    opts,        \* the command line of a batch command
    bpc,         \* position inside Command.handle
    i, j,        \* build_ors_matrix: the loop indices (0-based)
    qs, idx,     \* refresh: the evaluated queryset and the 1-based loop index
    attempts, pair,        \* the retry loop's locals
    results, count,        \* build_ors_matrix: entries so far and their number
    updated, skipped,      \* refresh: the run's counters
    matrixFile,  \* transit/data/ors_matrix.json
    statsFile    \* transit/data/ors_stats.json

dbVars == <<busStops, routes, routesBefore>>
searchVars == <<graph, graphBuilt, dist, prev, heap, visited>>
queryVars == <<origin, destination, qpc, searchVars, result, response>>
netVars == <<api_key, netUsed, sleptSince>>
retryVars == <<attempts, pair>>
matrixVars == <<i, j, results, count, matrixFile>>
refreshVars == <<qs, idx, updated, skipped, statsFile>>
batchVars == <<opts, bpc, retryVars, matrixVars, refreshVars>>
vars == <<prog, shape, dbVars, queryVars, netVars, call, batchVars>>

\* ---------------------------------------------------------------- helpers
Get(f, k) == IF k \in DOMAIN f THEN f[k] ELSE None

RECURSIVE SeqSum(_)
SeqSum(s) == IF s = <<>> THEN 0 ELSE Head(s) + SeqSum(Tail(s))

\* The fixture coordinates of tests.py: stop k sits at (12 + k, 75 + k) thousandths.
StopRow(id) == [latitude |-> 12 + id, longitude |-> 75 + id]

\* build_graph with the commented-out reverse arc of line 28 switched on.
build_graph_undirected ==
    [u \in {e[1] : e \in DOMAIN routes} \cup {e[2] : e \in DOMAIN routes} |->
        {<<e[2], routes[e].distance>> : e \in {x \in DOMAIN routes : x[1] = u}}
        \cup {<<e[1], routes[e].distance>> : e \in {x \in DOMAIN routes : x[2] = u}}]

\* build_graph with start and end swapped: every arc points backwards.
build_graph_reversed ==
    [u \in {e[2] : e \in DOMAIN routes} |->
        {<<e[1], routes[e].distance>> : e \in {x \in DOMAIN routes : x[2] = u}}]

\* build_graph(): one arc u -> (v, w) per Route row, nothing else.
build_graph ==
    [u \in {e[1] : e \in DOMAIN routes} |->
        {<<e[2], routes[e].distance>> : e \in {x \in DOMAIN routes : x[1] = u}}]

\* heapq.heappop: the smallest (distance, node) tuple, compared lexicographically.
HeapMin(h) ==
    CHOOSE x \in h : \A y \in h : x[1] < y[1] \/ (x[1] = y[1] /\ x[2] <= y[2])

\* Improves with "<=" for "<": an equally long way replaces the recorded one.
ImprovesOrEqual(d, arc) == arc[1] \notin DOMAIN dist \/ d + arc[2] <= dist[arc[1]]

\* Improves with the test of line 74 left out: every arc is pushed.
ImprovesAlways(d, arc) == TRUE

\* Improves without the "or alt < dist[v]" half of the test.
ImprovesFirstSeenOnly(d, arc) == arc[1] \notin DOMAIN dist

\* The arcs of u whose relaxation succeeds (utils.py line 74), with popped distance d.
Improves(d, arc) == arc[1] \notin DOMAIN dist \/ d + arc[2] < dist[arc[1]]

\* StopsAt without the "break" of lines 68-69.
StopsAtNever(u) == FALSE

\* utils.py 68-69: the loop ends when the popped node is the destination.
StopsAt(u) == u = destination

Adjacent(u) == IF u \in DOMAIN graph THEN graph[u] ELSE {}

\* WalkBack without the path_ids.reverse() of line 88.
RECURSIVE WalkBackUnreversed(_, _)
WalkBackUnreversed(cur, pv) ==
    IF cur = None THEN <<>> ELSE <<cur>> \o WalkBackUnreversed(Get(pv, cur), pv)

\* Lines 83-88: walk prev back from the destination, then reverse.
RECURSIVE WalkBackReversed(_, _)
WalkBackReversed(cur, pv) ==
    IF cur = None THEN <<>> ELSE Append(WalkBackReversed(Get(pv, cur), pv), cur)

WalkBack(cur, pv) == WalkBackReversed(cur, pv)

\* round(acc, 2) on thousandths: to the nearest multiple of 10, exact ties to even.
Round2(x) ==
    LET q == x \div 10
        r == x % 10
    IN  IF r < 5 THEN 10 * q
        ELSE IF r > 5 THEN 10 * (q + 1)
        ELSE IF q % 2 = 0 THEN 10 * q ELSE 10 * (q + 1)

EdgePairs(path) == [k \in 1..(Len(path) - 1) |-> <<path[k], path[k + 1]>>]

\* TotalDuration that skips an absent duration instead of giving up (a partial sum).
TotalDurationPartial(path) ==
    LET edge_pairs == [k \in 1..(Len(path) - 1) |-> <<path[k], path[k + 1]>>]
        known == {k \in DOMAIN edge_pairs : routes[edge_pairs[k]].duration # None}
    IN  IF edge_pairs = <<>> THEN None
        ELSE LET RECURSIVE Acc(_)
                 Acc(K) == IF K = {} THEN 0
                           ELSE LET k == CHOOSE x \in K : TRUE
                                IN  routes[edge_pairs[k]].duration + Acc(K \ {k})
             IN  (Acc(known) \div 10) * 10

\* Lines 104-127: total duration of the path, or None.
TotalDuration(path) ==
    LET edge_pairs == EdgePairs(path)
        us == {edge_pairs[k][1] : k \in DOMAIN edge_pairs}
        vs == {edge_pairs[k][2] : k \in DOMAIN edge_pairs}
        rows == {e \in DOMAIN routes : e[1] \in us /\ e[2] \in vs}
        dur_map == [e \in rows |-> routes[e].duration]
        durations_present == \A k \in DOMAIN edge_pairs : Get(dur_map, edge_pairs[k]) # None
    IN  IF edge_pairs = <<>> THEN None
        ELSE IF durations_present
             THEN Round2(SeqSum([k \in DOMAIN edge_pairs |-> dur_map[edge_pairs[k]]]))
             ELSE None

\* Lines 90-101: the detailed stop records, in path order.
OrderedStops(path) ==
    [k \in DOMAIN path |->
        [id |-> path[k], latitude |-> busStops[path[k]].latitude,
         longitude |-> busStops[path[k]].longitude]]

\* Lines 129-136: the result dictionary.
PathResult(path) ==
    LET base == [path |-> path, total_distance |-> dist[destination],
                 stops |-> OrderedStops(path)]
        td == TotalDuration(path)
    IN  IF td # None THEN base @@ ("total_duration_min" :> td) ELSE base

\* ---------------------------------------------------------------- provider
\* What a provider function hands its caller.
NoneRet == [tag |-> "None"]
Raise(exc) == [tag |-> "raise", exc |-> exc]
Pair(d, t) == [tag |-> "pair", distance_km |-> d, duration_min |-> t]
Enrichment(d, t) == [tag |-> "dict", distance_km |-> d, duration_min |-> t]
\* A step that sent a request: the function that sent it, what the network did,
\* what the function gave its caller.
Sent(site, kind, ret) == [site |-> site, kind |-> kind, ret |-> ret]
NoCall == [site |-> "none", kind |-> "none", ret |-> [tag |-> "nocall"]]

\* settings.OPENROUTESERVICE_API_KEY: empty or a credential; Unread before the read.
Unread == "unread"
KeySettings == {"", "key"}

\* What the network does with one request.
FailureKinds ==
    {"connect_fail", "connect_timeout", "read_timeout", "tls_handshake_fail",
     "tls_read_fail", "http_error", "bad_json", "no_features"}
DeviantKinds == {"no_properties", "no_summary", "no_distance", "no_duration"}
Kinds == {"ok"} \cup FailureKinds \cup DeviantKinds

\* One run's provider: any failure at any request, and bodies of one shape (a batch
\* run) or of any shape (the single request of the view).
Shapes == {"ok"} \cup DeviantKinds
RunKinds == IF shape = "any" THEN Kinds ELSE FailureKinds \cup {shape}

\* A well-formed answer: 2000 metres, 15 seconds.
OkDistanceM == 2000
OkDurationS == 15

\* The exception urlopen / resp.read / json.loads raises for a kind, "none" when the
\* body arrives and parses.  urlopen wraps what fails while connecting (refused,
\* timed out, TLS handshake) in URLError; a failure while reading the response
\* surfaces as itself; json.loads raises JSONDecodeError, a ValueError.
NetRaises(kind) ==
    CASE kind \in {"connect_fail", "connect_timeout", "tls_handshake_fail"} -> "URLError"
      [] kind = "http_error" -> "HTTPError"
      [] kind = "read_timeout" -> "socket.timeout"
      [] kind = "tls_read_fail" -> "ssl.SSLError"
      [] kind = "bad_json" -> "JSONDecodeError"
      [] OTHER -> "none"

EmptyDict == [x \in {} |-> x]

\* The parsed JSON body of a kind that raises nothing.
Body(kind) ==
    LET full == [distance |-> OkDistanceM, duration |-> OkDurationS]
        feature(props) == [type |-> "Feature", properties |-> props]
    IN  CASE kind = "ok" -> [features |-> <<feature([summary |-> full])>>]
          [] kind = "no_features" -> [features |-> <<>>]
          [] kind = "no_properties" -> [features |-> <<[type |-> "Feature"]>>]
          [] kind = "no_summary" -> [features |-> <<feature(EmptyDict)>>]
          [] kind = "no_distance" ->
                [features |-> <<feature([summary |-> [duration |-> OkDurationS]])>>]
          [] kind = "no_duration" ->
                [features |-> <<feature([summary |-> [distance |-> OkDistanceM]])>>]
          [] OTHER -> EmptyDict

\* dict.get(k, default)
DictGet(d, k, default) == IF k \in DOMAIN d THEN d[k] ELSE default

\* metres / 1000.0 as whole kilometres; seconds / 60.0 as thousandths of a minute.
MetresToKm(m) == m \div 1000
SecondsToMin(sec) == (sec * 1000) \div 60

\* round(x, 1) on thousandths: to the nearest multiple of 100, exact ties to even.
Round1(x) ==
    LET q == x \div 100
        r == x % 100
    IN  IF r < 50 THEN 100 * q
        ELSE IF r > 50 THEN 100 * (q + 1)
        ELSE IF q % 2 = 0 THEN 100 * q ELSE 100 * (q + 1)

\* build_ors_matrix.py 40-44: the exception classes ors_pair catches.
OrsPairCatches == {"HTTPError", "URLError", "socket.timeout", "ssl.SSLError"}

\* build_ors_matrix.py 25-55.
ors_pair(kind) ==
    LET exc == NetRaises(kind)
        res == Body(kind)
        features == DictGet(res, "features", <<>>)
    IN  IF exc \in OrsPairCatches THEN NoneRet
        ELSE IF exc # "none" THEN Raise(exc)
        ELSE IF features = <<>> THEN NoneRet
        ELSE IF "properties" \notin DOMAIN features[1] THEN NoneRet
        ELSE LET summary == DictGet(features[1].properties, "summary", EmptyDict)
                 dist_km == MetresToKm(DictGet(summary, "distance", 0))
                 dur_min == SecondsToMin(DictGet(summary, "duration", 0))
             IN  Pair(dist_km, dur_min)

\* refresh_route_distances_with_ors.py 31-35.
OrsDistanceDurationCatches == {"HTTPError", "URLError", "socket.timeout", "ssl.SSLError"}

\* refresh_route_distances_with_ors.py 16-46.
ors_distance_duration(kind) ==
    LET exc == NetRaises(kind)
        res == Body(kind)
        features == DictGet(res, "features", <<>>)
    IN  IF exc \in OrsDistanceDurationCatches THEN NoneRet
        ELSE IF exc # "none" THEN Raise(exc)
        ELSE IF features = <<>> THEN NoneRet
        ELSE IF "properties" \notin DOMAIN features[1] THEN NoneRet
        ELSE LET summary == DictGet(features[1].properties, "summary", EmptyDict)
                 dist_km == MetresToKm(DictGet(summary, "distance", 0))
                 dur_min == SecondsToMin(DictGet(summary, "duration", 0))
             IN  Pair(dist_km, dur_min)

\* DirectionsSends without the "not api_key" test.
DirectionsSendsWithoutKey(path_stops, key) == Len(path_stops) >= 2

\* utils.py 157: the enrichment sends a request only past this guard.
DirectionsSends(path_stops, key) == key # "" /\ Len(path_stops) >= 2

\* utils.py 167-172: the exception classes ors_directions_for_stops catches.
DirectionsCatches == {"HTTPError", "URLError"}

\* utils.py 167-189, once the request is sent.
ors_directions_for_stops(kind) ==
    LET exc == NetRaises(kind)
        data == Body(kind)
        features == DictGet(data, "features", <<>>)
    IN  IF exc \in DirectionsCatches THEN NoneRet
        ELSE IF exc # "none" THEN Raise(exc)
        ELSE IF features = <<>> THEN NoneRet
        ELSE LET props == DictGet(features[1], "properties", EmptyDict)
                 summary == DictGet(props, "summary", EmptyDict)
                 distance_m == DictGet(summary, "distance", 0)
                 duration_s == DictGet(summary, "duration", 0)
             IN  Enrichment(MetresToKm(distance_m), Round1(SecondsToMin(duration_s)))

InitNet ==
    /\ api_key = Unread
    /\ netUsed = FALSE
    /\ call = NoCall
    /\ sleptSince = FALSE

\* ---------------------------------------------------------------- batch state
NoOpts == [sleep_s |-> 0, limit |-> 0, dry |-> FALSE, retries |-> 0, skip_existing |-> FALSE]

\* The artifact files before a run: whatever an earlier run left.
OldMatrixFile == [writes |-> 0, pairs |-> <<>>]
OldStatsFile == [writes |-> 0, updated |-> None, skipped |-> None, run |-> "previous"]

InitBatchVars ==
    /\ bpc = "start"
    /\ i = 0 /\ j = 0
    /\ qs = <<>> /\ idx = 0
    /\ attempts = 0 /\ pair = NoneRet
    /\ results = <<>> /\ count = 0
    /\ updated = 0 /\ skipped = 0
    /\ matrixFile = OldMatrixFile
    /\ statsFile = OldStatsFile

\* ---------------------------------------------------------------- Init
EdgeSets(S) == {E \in SUBSET (S \X S) : Cardinality(E) \in EdgeCounts}

RouteRows == [distance : 0..MaxDist, duration : DurationValues]

InitDB ==
    /\ \E S \in SUBSET StopIds : busStops = [s \in S |-> StopRow(s)]
    /\ \E E \in EdgeSets(DOMAIN busStops) : routes \in [E -> RouteRows]
    /\ routesBefore = routes

InitQueryVars ==
    /\ qpc = "request"
    /\ graph = <<>>
    /\ graphBuilt = FALSE
    /\ dist = <<>>
    /\ prev = <<>>
    /\ heap = {}
    /\ visited = {}
    /\ result = Pending
    /\ response = Pending

InitQuery ==
    /\ prog = "query"
    /\ shape = "any"
    /\ InitDB
    /\ origin \in StopIds
    /\ destination \in StopIds
    /\ InitQueryVars
    /\ InitNet
    /\ InitBatchVars
    /\ opts = NoOpts

\* ---------------------------------------------------------------- query
\* utils.py 37-50 without the early return: the query goes through the search.
DijkstraSameViaSearch ==
    /\ prog = "query" /\ qpc = "request"
    /\ origin = destination
    /\ origin \in DOMAIN busStops
    /\ graph' = build_graph
    /\ graphBuilt' = TRUE
    /\ dist' = (origin :> 0)
    /\ prev' = (origin :> None)
    /\ heap' = {<<0, origin>>}
    /\ visited' = {}
    /\ qpc' = "loop"
    /\ UNCHANGED <<prog, shape, dbVars, origin, destination, result, response, netVars, batchVars>>
    /\ call' = NoCall

\* utils.py 37-50: origin == destination, the stop exists.
DijkstraSame ==
    /\ prog = "query" /\ qpc = "request"
    /\ origin = destination
    /\ origin \in DOMAIN busStops
    /\ result' = [path |-> <<origin>>, total_distance |-> 0,
                  stops |-> OrderedStops(<<origin>>)]
    /\ qpc' = "returned"
    /\ UNCHANGED <<prog, shape, dbVars, origin, destination, searchVars, response, netVars, batchVars>>
    /\ call' = NoCall

\* utils.py 38: BusStop.objects.get raises DoesNotExist; the view does not catch it.
DijkstraSameMissing ==
    /\ prog = "query" /\ qpc = "request"
    /\ origin = destination
    /\ origin \notin DOMAIN busStops
    /\ qpc' = "raised"
    /\ response' = [status |-> 500, exc |-> "DoesNotExist"]
    /\ UNCHANGED <<prog, shape, dbVars, origin, destination, searchVars, result, netVars, batchVars>>
    /\ call' = NoCall

\* utils.py 52-61: build the graph, seed dist, prev, heap, visited.
DijkstraBegin ==
    /\ prog = "query" /\ qpc = "request"
    /\ origin # destination
    /\ graph' = build_graph
    /\ graphBuilt' = TRUE
    /\ dist' = (origin :> 0)
    /\ prev' = (origin :> None)
    /\ heap' = {<<0, origin>>}
    /\ visited' = {}
    /\ qpc' = "loop"
    /\ UNCHANGED <<prog, shape, dbVars, origin, destination, result, response, netVars, batchVars>>
    /\ call' = NoCall

\* utils.py 63-77: one iteration of the while loop.
DijkstraIterate ==
    /\ prog = "query" /\ qpc = "loop"
    /\ heap # {}
    /\ LET top == HeapMin(heap)
           d == top[1]
           u == top[2]
           rest == heap \ {top}
       IN  IF u \in visited
           THEN /\ heap' = rest
                /\ UNCHANGED <<visited, dist, prev, qpc>>
           ELSE /\ visited' = visited \cup {u}
                /\ IF StopsAt(u)
                   THEN /\ qpc' = "after"
                        /\ heap' = rest
                        /\ UNCHANGED <<dist, prev>>
                   ELSE LET better == {arc \in Adjacent(u) : Improves(d, arc)}
                            upd == [arc \in better |-> d + arc[2]]
                            tgt == {arc[1] : arc \in better}
                            alt(v) == d + (CHOOSE arc \in better : arc[1] = v)[2]
                        IN  /\ dist' = [v \in DOMAIN dist \cup tgt |->
                                          IF v \in tgt THEN alt(v) ELSE dist[v]]
                            /\ prev' = [v \in DOMAIN prev \cup tgt |->
                                          IF v \in tgt THEN u ELSE prev[v]]
                            /\ heap' = rest \cup {<<alt(v), v>> : v \in tgt}
                            /\ UNCHANGED qpc
    /\ UNCHANGED <<prog, shape, dbVars, origin, destination, graph, graphBuilt, result, response, netVars, batchVars>>
    /\ call' = NoCall

\* utils.py 63: the heap is empty, the loop ends.
DijkstraExhausted ==
    /\ prog = "query" /\ qpc = "loop"
    /\ heap = {}
    /\ qpc' = "after"
    /\ UNCHANGED <<prog, shape, dbVars, origin, destination, searchVars, result, response, netVars, batchVars>>
    /\ call' = NoCall

\* utils.py 79-80: the destination was never reached.
DijkstraNotFound ==
    /\ prog = "query" /\ qpc = "after"
    /\ destination \notin DOMAIN dist
    /\ result' = NotFound
    /\ qpc' = "returned"
    /\ UNCHANGED <<prog, shape, dbVars, origin, destination, searchVars, response, netVars, batchVars>>
    /\ call' = NoCall

\* utils.py 82-136: reconstruct the path, aggregate the duration, return.
DijkstraFound ==
    /\ prog = "query" /\ qpc = "after"
    /\ destination \in DOMAIN dist
    /\ result' = PathResult(WalkBack(destination, prev))
    /\ qpc' = "returned"
    /\ UNCHANGED <<prog, shape, dbVars, origin, destination, searchVars, response, netVars, batchVars>>
    /\ call' = NoCall

\* views.py 49-50: no path, answer 404.
ViewNotFound ==
    /\ prog = "query" /\ qpc = "returned"
    /\ result = NotFound
    /\ response' = [status |-> 404]
    /\ qpc' = "responded"
    /\ UNCHANGED <<prog, shape, dbVars, origin, destination, searchVars, result, netVars, batchVars>>
    /\ call' = NoCall

\* views.py 53-57 with utils.py 156-158: the enrichment returns None before any request.
ViewPlain ==
    /\ prog = "query" /\ qpc = "returned"
    /\ result # NotFound
    /\ \E key \in KeySettings :
          /\ ~DirectionsSends(result.stops, key)
          /\ api_key' = key
    /\ call' = NoCall
    /\ response' = [status |-> 200, body |-> result]
    /\ qpc' = "responded"
    /\ UNCHANGED <<prog, shape, dbVars, origin, destination, searchVars, result, netUsed, sleptSince, batchVars>>

\* views.py 53-57 with utils.py 160-189: the enrichment sends one request.
ViewEnrich ==
    /\ prog = "query" /\ qpc = "returned"
    /\ result # NotFound
    /\ \E key \in KeySettings :
          /\ DirectionsSends(result.stops, key)
          /\ api_key' = key
    /\ \E kind \in RunKinds :
          LET ors == ors_directions_for_stops(kind)
          IN  /\ call' = Sent("ors_directions_for_stops", kind, ors)
              /\ IF ors.tag = "raise"
                 THEN /\ response' = [status |-> 500, exc |-> ors.exc]
                      /\ qpc' = "raised"
                 ELSE /\ response' = [status |-> 200,
                                      body |-> IF ors.tag = "dict"
                                               THEN result @@ ("ors" :> ors)
                                               ELSE result]
                      /\ qpc' = "responded"
    /\ netUsed' = TRUE
    /\ UNCHANGED <<prog, shape, dbVars, origin, destination, searchVars, result, sleptSince, batchVars>>

NextQuery ==
    \/ DijkstraSame
    \/ DijkstraSameMissing
    \/ DijkstraBegin
    \/ DijkstraIterate
    \/ DijkstraExhausted
    \/ DijkstraNotFound
    \/ DijkstraFound
    \/ ViewNotFound
    \/ ViewPlain
    \/ ViewEnrich

SpecQuery == InitQuery /\ [][NextQuery]_vars

\* ---------------------------------------------------------------- the search alone
\* A store of four stops whose routes are drawn from one diamond with a way back
\* and a self-loop: the smallest on which a node is pushed twice and its stale
\* entry popped (utils.py 64-65).
DiamondIds == 1..4
DiamondArcs == {<<1, 2>>, <<1, 3>>, <<3, 2>>, <<2, 4>>, <<2, 1>>, <<2, 2>>}

InitDiamond ==
    /\ prog = "query"
    /\ shape = "any"
    /\ busStops = [s \in DiamondIds |-> StopRow(s)]
    /\ \E E \in SUBSET DiamondArcs :
          routes \in [E -> [distance : 0..MaxDist, duration : {None}]]
    /\ routesBefore = routes
    /\ origin = 1
    /\ destination \in DiamondIds
    /\ InitQueryVars
    /\ InitNet
    /\ InitBatchVars
    /\ opts = NoOpts

InitSearch == InitQuery \/ InitDiamond

\* dijkstra_shortest_path on its own, from the call to the return.
NextDijkstra ==
    \/ DijkstraSame
    \/ DijkstraSameMissing
    \/ DijkstraBegin
    \/ DijkstraIterate
    \/ DijkstraExhausted
    \/ DijkstraNotFound
    \/ DijkstraFound

SpecDijkstra == InitSearch /\ [][NextDijkstra]_vars

\* The function runs in one thread that is never suspended for ever: a step that
\* can be taken is taken.
SpecDijkstraFair == SpecDijkstra /\ WF_vars(NextDijkstra)

\* ---------------------------------------------------------------- small stores
\* The stores the edge refresh and the view's enrichment are run on: the routes a
\* prefix of one ring, each either unset (distance 0, no duration) or set.
Ring == <<<<1, 2>>, <<2, 3>>, <<3, 1>>>>
RingRows == {[distance |-> 0, duration |-> None], [distance |-> 1, duration |-> 125]}

InitRingDB(Tables) ==
    /\ \E S \in Tables : busStops = [s \in S |-> StopRow(s)]
    /\ \E k \in 0..Len(Ring) :
          routes \in [{Ring[m] : m \in 1..k} \cap ((DOMAIN busStops) \X (DOMAIN busStops))
                         -> RingRows]
    /\ routesBefore = routes

InitView ==
    /\ prog = "query"
    /\ shape = "any"
    /\ InitRingDB(SUBSET StopIds)
    /\ origin \in StopIds
    /\ destination \in StopIds
    /\ InitQueryVars
    /\ InitNet
    /\ InitBatchVars
    /\ opts = NoOpts

InitIdleQuery ==
    /\ origin = 0 /\ destination = 0
    /\ InitQueryVars

\* ---------------------------------------------------------------- build_ors_matrix
RECURSIVE Ascending(_)
Ascending(S) ==
    IF S = {} THEN <<>>
    ELSE LET m == CHOOSE x \in S : \A y \in S : x <= y
         IN  <<m>> \o Ascending(S \ {m})

\* build_ors_matrix.py 85: list(BusStop.objects.all().order_by("id"))
stops == Ascending(DOMAIN busStops)

Abs(x) == IF x < 0 THEN 0 - x ELSE x

\* build_ors_matrix.py 16-22, on the integer grid of StopRow: a symmetric distance
\* that is 0 exactly between coincident points.
haversine_km(lat1, lon1, lat2, lon2) == Abs(lat2 - lat1) + Abs(lon2 - lon1)

\* NextPair with the inner loop started at i + 1: unordered pairs only.
NextPairUpperTriangle(a, b, n) ==
    LET later == {p \in (0..(n - 1)) \X (0..(n - 1)) :
                     /\ p[1] < p[2]
                     /\ p[1] > a \/ (p[1] = a /\ p[2] > b)}
    IN  IF later = {} THEN <<n, 0>>
        ELSE CHOOSE p \in later :
                \A q \in later : p[1] < q[1] \/ (p[1] = q[1] /\ p[2] <= q[2])

\* build_ors_matrix.py 95 without the "if i == j: continue".
NextPairWithDiagonal(a, b, n) ==
    IF b + 1 < n THEN <<a, b + 1>>
    ELSE IF a + 1 < n THEN <<a + 1, 0>> ELSE <<n, 0>>

\* build_ors_matrix.py 93-96: the pair after (a, b) in the order of the two for
\* loops, skipping a = b; <<n, 0>> when the loops are over.
NextPair(a, b, n) ==
    LET later == {p \in (0..(n - 1)) \X (0..(n - 1)) :
                     /\ p[1] # p[2]
                     /\ p[1] > a \/ (p[1] = a /\ p[2] > b)}
    IN  IF later = {} THEN <<n, 0>>
        ELSE CHOOSE p \in later :
                \A q \in later : p[1] < q[1] \/ (p[1] = q[1] /\ p[2] <= q[2])

\* RetryLoopRuns with the retry budget ignored: one attempt per item.
RetryLoopRunsOnce == attempts = 0 /\ pair = NoneRet

\* RetryLoopRuns without the "and pair is None" half of the condition.
RetryLoopRunsIgnoringResult == attempts <= opts.retries

\* build_ors_matrix.py 105 / refresh 84: the retry loop's condition.
RetryLoopRuns == attempts <= opts.retries /\ pair = NoneRet

\* SleepsBetweenAttempts with the time.sleep of line 108 / 94 left out.
SleepsBetweenAttemptsNever(r) == FALSE

\* build_ors_matrix.py 107-108 / refresh 93-94: the sleep inside the retry loop,
\* taken after an attempt that returned r.
SleepsBetweenAttempts(r) == r = NoneRet /\ attempts < opts.retries /\ opts.sleep_s > 0

\* build_ors_matrix.py 112-125 with "method" left at its initial "ors".
MatrixEntryAlwaysOrs(a, b, p) ==
    [from |-> a, to |-> b,
     distance_km |-> haversine_km(busStops[a].latitude, busStops[a].longitude,
                                  busStops[b].latitude, busStops[b].longitude),
     duration_min |-> None, method |-> "ors"]

\* build_ors_matrix.py 112-125: the entry appended for the pair (a, b).
MatrixEntry(a, b, p) ==
    IF p = NoneRet
    THEN [from |-> a, to |-> b,
          distance_km |-> haversine_km(busStops[a].latitude, busStops[a].longitude,
                                       busStops[b].latitude, busStops[b].longitude),
          duration_min |-> None, method |-> "haversine"]
    ELSE [from |-> a, to |-> b, distance_km |-> p.distance_km,
          duration_min |-> Round2(p.duration_min), method |-> "ors"]

\* CapReached with ">" for ">=": one pair too many.
CapReachedLate(n) == opts.limit # 0 /\ n > opts.limit

\* build_ors_matrix.py 127 / 131: "if limit and count >= limit", count being n.
CapReached(n) == opts.limit # 0 /\ n >= opts.limit

MatrixOpts ==
    [sleep_s : SleepValues, limit : 0..MaxLimit, dry : BOOLEAN,
     retries : 0..MaxRetries, skip_existing : {FALSE}]

InitMatrix ==
    /\ prog = "matrix"
    /\ shape \in Shapes
    /\ \E S \in SUBSET StopIds : busStops = [s \in S |-> StopRow(s)]
    /\ routes = <<>>
    /\ routesBefore = routes
    /\ opts \in MatrixOpts
    /\ InitIdleQuery
    /\ InitNet
    /\ InitBatchVars

\* build_ors_matrix.py 69-92: read the settings and the stops, enter the loops.
MatrixStart ==
    /\ call' = NoCall
    /\ prog = "matrix" /\ bpc = "start"
    /\ api_key' \in KeySettings
    /\ LET first == NextPair(0, -1, Len(stops))
       IN  /\ i' = first[1]
           /\ j' = first[2]
           /\ bpc' = IF first[1] < Len(stops) THEN "pair" ELSE "finish"
    /\ UNCHANGED <<prog, shape, dbVars, queryVars, netUsed, sleptSince, opts, retryVars, results, count, matrixFile, refreshVars>>

\* build_ors_matrix.py 105-109: one pass of the retry loop, one request.
MatrixAttempt ==
    /\ prog = "matrix" /\ bpc = "pair"
    /\ api_key # ""
    /\ RetryLoopRuns
    /\ \E kind \in RunKinds :
          LET r == ors_pair(kind)
          IN  /\ call' = Sent("ors_pair", kind, r)
              /\ IF r.tag = "raise"
                 THEN /\ bpc' = "raised"
                      /\ sleptSince' = FALSE
                      /\ UNCHANGED retryVars
                 ELSE /\ pair' = r
                      /\ attempts' = attempts + 1
                      /\ sleptSince' = SleepsBetweenAttempts(r)
                      /\ UNCHANGED bpc
    /\ netUsed' = TRUE
    /\ UNCHANGED <<prog, shape, dbVars, queryVars, api_key, opts, matrixVars, refreshVars>>

\* build_ors_matrix.py 110-132: fall back or take the pair, append the entry, count,
\* apply the cap, sleep, move to the next pair.
MatrixRecord ==
    /\ call' = NoCall
    /\ prog = "matrix" /\ bpc = "pair"
    /\ api_key = "" \/ ~RetryLoopRuns
    /\ results' = Append(results, MatrixEntry(stops[i + 1], stops[j + 1], pair))
    /\ count' = count + 1
    /\ attempts' = 0
    /\ pair' = NoneRet
    /\ IF CapReached(count + 1)
       THEN /\ bpc' = "finish"
            /\ UNCHANGED <<i, j, sleptSince>>
       ELSE LET next == NextPair(i, j, Len(stops))
            IN  /\ sleptSince' = IF opts.sleep_s > 0 /\ api_key # "" THEN TRUE
                                 ELSE sleptSince
                /\ i' = next[1]
                /\ j' = next[2]
                /\ bpc' = IF next[1] < Len(stops) THEN "pair" ELSE "finish"
    /\ UNCHANGED <<prog, shape, dbVars, queryVars, api_key, netUsed, opts, matrixFile, refreshVars>>

\* MatrixFinish without the "if dry: return" of lines 134-136.
MatrixFinishAlwaysWrites ==
    /\ call' = NoCall
    /\ prog = "matrix" /\ bpc = "finish"
    /\ matrixFile' = [writes |-> matrixFile.writes + 1, pairs |-> results]
    /\ bpc' = "done"
    /\ UNCHANGED <<prog, shape, dbVars, queryVars, netVars, opts, retryVars, i, j, results,
                   count, refreshVars>>

\* build_ors_matrix.py 134-143: dry run, or write the artifact.
MatrixFinish ==
    /\ call' = NoCall
    /\ prog = "matrix" /\ bpc = "finish"
    /\ matrixFile' = IF opts.dry THEN matrixFile
                     ELSE [writes |-> matrixFile.writes + 1, pairs |-> results]
    /\ bpc' = "done"
    /\ UNCHANGED <<prog, shape, dbVars, queryVars, netVars, opts, retryVars, i, j, results,
                   count, refreshVars>>

NextMatrix ==
    \/ MatrixStart
    \/ MatrixAttempt
    \/ MatrixRecord
    \/ MatrixFinish

SpecMatrix == InitMatrix /\ [][NextMatrix]_vars

\* ---------------------------------------------------------------- refresh
RefreshOpts ==
    [sleep_s : SleepValues, limit : 0..MaxLimit, dry : BOOLEAN,
     retries : 0..MaxRetries, skip_existing : BOOLEAN]

\* The Route rows in store order (by start and end id).
RECURSIVE InStoreOrder(_)
InStoreOrder(E) ==
    IF E = {} THEN <<>>
    ELSE LET m == CHOOSE x \in E :
                     \A y \in E : x[1] < y[1] \/ (x[1] = y[1] /\ x[2] <= y[2])
         IN  <<m>> \o InStoreOrder(E \ {m})

\* Queryset with distance__lt=0 for distance__lte=0: a stored 0 counts as set.
QuerysetZeroIsSet ==
    LET kept == IF opts.skip_existing
                THEN {e \in DOMAIN routes : routes[e].distance < 0}
                ELSE DOMAIN routes
        all == InStoreOrder(kept)
    IN  IF opts.limit > 0 /\ Len(all) > opts.limit THEN SubSeq(all, 1, opts.limit)
        ELSE all

\* refresh 72-76: the queryset, filtered and sliced, as the loop will see it.
Queryset ==
    LET kept == IF opts.skip_existing
                THEN {e \in DOMAIN routes : routes[e].distance <= 0}
                ELSE DOMAIN routes
        all == InStoreOrder(kept)
    IN  IF opts.limit > 0 /\ Len(all) > opts.limit THEN SubSeq(all, 1, opts.limit)
        ELSE all

InitRefresh ==
    /\ prog = "refresh"
    /\ shape \in Shapes
    /\ InitRingDB({StopIds})
    /\ opts \in RefreshOpts
    /\ InitIdleQuery
    /\ InitNet
    /\ InitBatchVars

\* CommittedRow with update_fields naming the distance only.
CommittedRowDistanceOnly(old, p) == [distance |-> p.distance_km, duration |-> old.duration]

\* refresh 100-104: the row r.save(update_fields=["distance", "duration"]) stores
\* over the row old.
CommittedRow(old, p) == [distance |-> p.distance_km, duration |-> p.duration_min]

\* refresh 61-64: no credential, the command returns at once.
RefreshNoKey ==
    /\ call' = NoCall
    /\ prog = "refresh" /\ bpc = "start"
    /\ api_key' = ""
    /\ bpc' = "done"
    /\ UNCHANGED <<prog, shape, dbVars, queryVars, netUsed, sleptSince, opts, retryVars, matrixVars, refreshVars>>

\* refresh 61-81: read the settings and the options, evaluate the queryset.
RefreshStart ==
    /\ call' = NoCall
    /\ prog = "refresh" /\ bpc = "start"
    /\ api_key' \in KeySettings \ {""}
    /\ qs' = Queryset
    /\ idx' = 1
    /\ bpc' = IF Queryset = <<>> THEN "finish" ELSE "edge"
    /\ UNCHANGED <<prog, shape, dbVars, queryVars, netUsed, sleptSince, opts, retryVars, matrixVars, updated, skipped, statsFile>>

\* refresh 84-95: one pass of the retry loop, one request.
RefreshAttempt ==
    /\ prog = "refresh" /\ bpc = "edge"
    /\ RetryLoopRuns
    /\ \E kind \in RunKinds :
          LET r == ors_distance_duration(kind)
          IN  /\ call' = Sent("_ors_distance_duration", kind, r)
              /\ IF r.tag = "raise"
                 THEN /\ bpc' = "raised"
                      /\ sleptSince' = FALSE
                      /\ UNCHANGED retryVars
                 ELSE /\ pair' = r
                      /\ attempts' = attempts + 1
                      /\ sleptSince' = SleepsBetweenAttempts(r)
                      /\ UNCHANGED bpc
    /\ netUsed' = TRUE
    /\ UNCHANGED <<prog, shape, dbVars, queryVars, api_key, opts, matrixVars, refreshVars>>

\* refresh 97-110: skip or commit the edge, count, sleep, move to the next edge.
RefreshRecord ==
    /\ call' = NoCall
    /\ prog = "refresh" /\ bpc = "edge"
    /\ ~RetryLoopRuns
    /\ IF pair = NoneRet
       THEN /\ skipped' = skipped + 1
            /\ UNCHANGED <<updated, routes>>
       ELSE /\ routes' = IF opts.dry THEN routes
                         ELSE [routes EXCEPT ![qs[idx]] = CommittedRow(@, pair)]
            /\ updated' = updated + 1
            /\ UNCHANGED skipped
    /\ sleptSince' = IF opts.sleep_s > 0 THEN TRUE ELSE sleptSince
    /\ attempts' = 0
    /\ pair' = NoneRet
    /\ idx' = idx + 1
    /\ bpc' = IF idx = Len(qs) THEN "finish" ELSE "edge"
    /\ UNCHANGED <<prog, shape, busStops, routesBefore, queryVars, api_key, netUsed, opts, matrixVars, qs, statsFile>>

\* refresh 112-127: write the run's statistics.
RefreshFinish ==
    /\ call' = NoCall
    /\ prog = "refresh" /\ bpc = "finish"
    /\ statsFile' = [writes |-> statsFile.writes + 1, updated |-> updated,
                     skipped |-> skipped, run |-> "this"]
    /\ bpc' = "done"
    /\ UNCHANGED <<prog, shape, dbVars, queryVars, netVars, opts, retryVars, matrixVars,
                   qs, idx, updated, skipped>>

NextRefresh ==
    \/ RefreshNoKey
    \/ RefreshStart
    \/ RefreshAttempt
    \/ RefreshRecord
    \/ RefreshFinish

SpecRefresh == InitRefresh /\ [][NextRefresh]_vars

\* ---------------------------------------------------------------- query beside a refresh
\* refresh 100-104, seen from a query in progress: the refresh, running as another
\* process, commits the provider's answer for one edge it has not committed yet.
ConcurrentCommit ==
    /\ prog = "query" /\ qpc \in {"request", "loop", "after"}
    /\ \E e \in DOMAIN routes :
          /\ routes[e] = routesBefore[e]
          /\ routes' = [routes EXCEPT ![e] = CommittedRow(@, ors_distance_duration("ok"))]
    /\ call' = NoCall
    /\ UNCHANGED <<prog, shape, busStops, routesBefore, queryVars, netVars, batchVars>>

NextConcurrent ==
    \/ NextQuery
    \/ ConcurrentCommit

SpecConcurrent == InitView /\ [][NextConcurrent]_vars

\* ---------------------------------------------------------------- all entry points
Init == InitView \/ InitMatrix \/ InitRefresh

Next == NextQuery \/ NextMatrix \/ NextRefresh

Spec == Init /\ [][Next]_vars

\* ================================================================ claims
Returned == result # Pending
ReturnedPath == result # Pending /\ result # NotFound

\* Every directed walk from o to d with at most one more node than there are ids:
\* with non-negative distances no longer walk is shorter.
Walks(o, d) ==
    {p \in UNION {[1..m -> StopIds] : m \in 2..(Cardinality(StopIds) + 1)} :
        /\ p[1] = o
        /\ p[Len(p)] = d
        /\ \A k \in 1..(Len(p) - 1) : <<p[k], p[k + 1]>> \in DOMAIN routes}

WalkDistance(p) == SeqSum([k \in 1..(Len(p) - 1) |-> routes[<<p[k], p[k + 1]>>].distance])

\* C1: for distinct origin and destination with the destination reachable, the
\* returned total_distance is the minimum, over all directed paths from origin to
\* destination, of the summed edge distances.
C1_ShortestDistance ==
    (Returned /\ origin # destination)
        => LET W == Walks(origin, destination)
           IN  (W # {}) =>
                  /\ result # NotFound
                  /\ \A p \in W : result.total_distance <= WalkDistance(p)
                  /\ \E p \in W : result.total_distance = WalkDistance(p)

\* C1 witness: the two-arc path won against a longer direct arc.
C1_Witness ==
    /\ ReturnedPath /\ origin # destination
    /\ Len(result.path) = 3
    /\ <<origin, destination>> \in DOMAIN routes
    /\ routes[<<origin, destination>>].distance > result.total_distance

\* C2: a returned path for distinct origin and destination starts at origin, ends
\* at destination, follows stored edges only, and total_distance is the sum of
\* exactly those edges' distances.
C2_PathIsWalkOfItsLength ==
    (ReturnedPath /\ origin # destination)
        => /\ Len(result.path) >= 2
           /\ result.path[1] = origin
           /\ result.path[Len(result.path)] = destination
           /\ \A k \in 1..(Len(result.path) - 1) :
                 <<result.path[k], result.path[k + 1]>> \in DOMAIN routes
           /\ result.total_distance = WalkDistance(result.path)

\* C2 witness: a returned path of three stops with a positive length.
C2_Witness ==
    /\ ReturnedPath /\ origin # destination
    /\ Len(result.path) = 3
    /\ result.total_distance > 0

\* C3: for every stored stop x, the query (x, x) returns the one-node path [x] with
\* total_distance 0 and neither builds nor reads the graph.
C3_SameStop ==
    (origin = destination /\ origin \in DOMAIN busStops /\ qpc # "request")
        => /\ ReturnedPath
           /\ result.path = <<origin>>
           /\ result.total_distance = 0
           /\ ~graphBuilt
           /\ graph = <<>> /\ dist = <<>> /\ heap = {}

\* C3 witness: answered for a stop that sits on a cycle and has a self-loop.
C3_Witness ==
    /\ origin = destination /\ ReturnedPath
    /\ <<origin, origin>> \in DOMAIN routes
    /\ \E y \in StopIds \ {origin} :
          <<origin, y>> \in DOMAIN routes /\ <<y, origin>> \in DOMAIN routes

\* C4: for distinct origin and destination with no directed path between them the
\* result is NotFound, and a path result always carries a finite numeric distance.
C4_UnreachableIsNotFound ==
    (Returned /\ origin # destination)
        => /\ (Walks(origin, destination) = {}) => (result = NotFound)
           /\ (result # NotFound) =>
                 /\ "total_distance" \in DOMAIN result
                 /\ result.total_distance \in 0..(Cardinality(DOMAIN routes) * MaxDist)

\* C4 witness: NotFound although the reverse edge is stored.
C4_Witness ==
    /\ result = NotFound /\ origin # destination
    /\ <<destination, origin>> \in DOMAIN routes

PathEdges(path) == {<<path[k], path[k + 1]>> : k \in 1..(Len(path) - 1)}
PathDurations(path) == [k \in 1..(Len(path) - 1) |-> routes[<<path[k], path[k + 1]>>].duration]
AllDurationsRecorded(path) == \A e \in PathEdges(path) : routes[e].duration # None

\* C5 as stated: total_duration_min is present exactly when every edge of the path
\* has a duration, and is then the sum of those durations.
C5_DurationIsExactSum ==
    (ReturnedPath /\ origin # destination)
        => /\ ("total_duration_min" \in DOMAIN result) <=> AllDurationsRecorded(result.path)
           /\ ("total_duration_min" \in DOMAIN result) =>
                 result.total_duration_min = SeqSum(PathDurations(result.path))

\* C5 amended: total_duration_min is present exactly when every edge of the path
\* has a duration, and is then the sum of those durations rounded to two decimals.
C5_DurationIsRoundedSum ==
    (ReturnedPath /\ origin # destination)
        => /\ ("total_duration_min" \in DOMAIN result) <=> AllDurationsRecorded(result.path)
           /\ ("total_duration_min" \in DOMAIN result) =>
                 /\ result.total_duration_min = Round2(SeqSum(PathDurations(result.path)))
                 /\ result.total_duration_min % 10 = 0
                 /\ result.total_duration_min - SeqSum(PathDurations(result.path)) \in -5..5

\* C5 witness: a two-edge path with both durations recorded, next to a stored edge
\* without one, and a reported total that is not the exact sum.
C5_Witness ==
    /\ ReturnedPath /\ origin # destination
    /\ "total_duration_min" \in DOMAIN result
    /\ \E e \in DOMAIN routes : routes[e].duration = None
    /\ result.total_duration_min # SeqSum(PathDurations(result.path))

\* C6: without a credential no request is ever sent to the provider, from the
\* enrichment, the matrix build or the edge refresh; the enrichment answers
\* nothing and every matrix entry is an estimate.
C6_NoKeyNoRequest ==
    (api_key # "key")
        => /\ ~netUsed
           /\ call = NoCall
           /\ (prog = "query" /\ qpc = "responded" /\ result # NotFound)
                 => response = [status |-> 200, body |-> result]
           /\ \A k \in DOMAIN results : results[k].method = "haversine"
           /\ updated = 0 /\ skipped = 0

\* C6 witness: a matrix build without a credential that went through all six
\* pairs of three stops.
C6_Witness ==
    /\ prog = "matrix" /\ api_key = "" /\ bpc = "done"
    /\ Len(results) = 6
    /\ ~netUsed

\* C7 as stated: whatever way a request fails, the provider function that sent it
\* returns None and no exception escapes it.
C7_EveryFailureIsUnavailable ==
    (call.kind \in FailureKinds) => (call.ret = NoneRet)

\* C8 as stated: a body that parses but lacks the summary, its distance or its
\* duration is reported as None, so it is never a provider entry of the matrix and
\* never overwrites an edge.
C8_DeviantShapeIsUnavailable ==
    /\ (call.kind \in DeviantKinds) => (call.ret = NoneRet)
    /\ (shape \in DeviantKinds) =>
          /\ \A k \in DOMAIN results : results[k].method # "ors"
          /\ updated = 0

\* C9 as stated: a batch run stops only after its last item, whatever the provider
\* does: a stopped uncapped matrix build has an entry for every pair, a stopped
\* edge refresh has counted every edge of its queryset.
C9_BatchRunsToTheLastItem ==
    /\ (prog = "matrix" /\ bpc \in {"done", "raised"} /\ opts.limit = 0)
          => Len(results) = Len(stops) * (Len(stops) - 1)
    /\ (prog = "refresh" /\ bpc \in {"done", "raised"} /\ api_key = "key")
          => updated + skipped = Len(qs)

\* C10: an uncapped matrix build without a credential ends with n * (n - 1)
\* entries for n stops, all of them haversine estimates without a duration.
C10_EstimateOnlyMatrix ==
    (prog = "matrix" /\ bpc \in {"finish", "done"} /\ api_key = "" /\ opts.limit = 0)
        => /\ Len(results) = Len(stops) * (Len(stops) - 1)
           /\ \A k \in DOMAIN results :
                 /\ results[k].method = "haversine"
                 /\ results[k].duration_min = None
                 /\ results[k].from # results[k].to

\* C10 witness: three stops, no credential, no cap, six entries.
C10_Witness ==
    /\ prog = "matrix" /\ bpc = "done" /\ api_key = "" /\ opts.limit = 0
    /\ Len(stops) = 3
    /\ Len(results) = 6

\* ---------------------------------------------------------------- C11 .. C20
RefreshEnded == prog = "refresh" /\ bpc \in {"done", "raised"}

\* C11 as stated: an edge refresh with a credential in which no provider attempt
\* gave a result (so the run counted no update) leaves every edge as it was and
\* records updated = 0 and skipped = the number of edges of the pass.
C11_AllFailedRunSkipsEveryEdge ==
    (RefreshEnded /\ api_key = "key" /\ updated = 0)
        => /\ routes = routesBefore
           /\ statsFile.run = "this"
           /\ statsFile.updated = 0
           /\ statsFile.skipped = Len(qs)

\* C12 as stated: an edge refresh that has ended, with or without a credential,
\* dry or not, has overwritten the statistics file with its own counts.
C12_EndedRunOverwritesStats ==
    RefreshEnded
        => statsFile = [writes |-> 1, updated |-> updated, skipped |-> skipped,
                        run |-> "this"]

OrderedPairs(S) == {p \in S \X S : p[1] # p[2]}
EntryPairs == {<<results[k].from, results[k].to>> : k \in DOMAIN results}

\* C13: a completed matrix build without a cap holds exactly one entry for every
\* ordered pair of distinct stops and none with from = to, whatever the provider did.
C13_EveryOrderedPairOnce ==
    (prog = "matrix" /\ bpc = "done" /\ opts.limit = 0)
        => /\ EntryPairs = OrderedPairs(DOMAIN busStops)
           /\ Len(results) = Cardinality(OrderedPairs(DOMAIN busStops))

\* C13 witness: a completed build over three stops with a credential, some entries
\* from the provider and some estimated.
C13_Witness ==
    /\ prog = "matrix" /\ bpc = "done" /\ opts.limit = 0 /\ api_key = "key"
    /\ Cardinality(DOMAIN busStops) = 3
    /\ \E k \in DOMAIN results : results[k].method = "ors"
    /\ \E k \in DOMAIN results : results[k].method = "haversine"

\* C14: a dry run never writes the matrix file; a run that is not dry writes it
\* once, when it completes, with all the entries it computed, and not before.
C14_DryRunWritesNothing ==
    (prog = "matrix")
        => /\ (bpc # "done" \/ opts.dry) => matrixFile = OldMatrixFile
           /\ (bpc = "done" /\ ~opts.dry)
                 => /\ matrixFile = [writes |-> 1, pairs |-> results]
                    /\ Len(matrixFile.pairs) = count

\* C14 witness: a completed dry run that computed entries, one of them from the
\* provider.
C14_Witness ==
    /\ prog = "matrix" /\ bpc = "done" /\ opts.dry
    /\ Len(results) >= 2
    /\ \E k \in DOMAIN results : results[k].method = "ors"

\* The ordered pairs of distinct ids of S: ascending from-id, then ascending to-id.
RECURSIVE PairsInIdOrder(_)
PairsInIdOrder(P) ==
    IF P = {} THEN <<>>
    ELSE LET m == CHOOSE x \in P :
                     \A y \in P : x[1] < y[1] \/ (x[1] = y[1] /\ x[2] <= y[2])
         IN  <<m>> \o PairsInIdOrder(P \ {m})

\* C15: the entries of a matrix build are always the first pairs of the id-order
\* enumeration, and a completed build with a cap c > 0 holds exactly
\* min(c, n * (n - 1)) of them.
C15_CapTakesTheFirstPairs ==
    (prog = "matrix")
        => LET all == PairsInIdOrder(OrderedPairs(DOMAIN busStops))
           IN  /\ Len(results) <= Len(all)
               /\ \A k \in DOMAIN results : <<results[k].from, results[k].to>> = all[k]
               /\ (bpc = "done" /\ opts.limit > 0)
                     => Len(results) = IF opts.limit < Len(all) THEN opts.limit
                                       ELSE Len(all)

\* C15 witness: a completed build with a credential, capped at two of the six pairs.
C15_Witness ==
    /\ prog = "matrix" /\ bpc = "done" /\ api_key = "key"
    /\ opts.limit = 2
    /\ Cardinality(DOMAIN busStops) = 3
    /\ Len(results) = 2

\* The stores in which every edge is at one of its versions: as it was when the
\* query started, or as it is now.
EdgeVersions ==
    {S \in [DOMAIN routes -> {routesBefore[e] : e \in DOMAIN routes}
                                \cup {routes[e] : e \in DOMAIN routes}] :
        \A e \in DOMAIN routes : S[e] \in {routesBefore[e], routes[e]}}

\* C16 as stated: the fields of a query's result are all computed from one version
\* of each edge of the path: the distance and the duration of an edge are never
\* taken from two different versions of it.
C16_OneVersionPerEdge ==
    (prog = "query" /\ ReturnedPath /\ origin # destination)
        => \E S \in EdgeVersions :
              LET n == Len(result.path) - 1
                  d == [k \in 1..n |-> S[<<result.path[k], result.path[k + 1]>>].distance]
                  t == [k \in 1..n |-> S[<<result.path[k], result.path[k + 1]>>].duration]
                  all == \A k \in 1..n : t[k] # None
              IN  /\ result.total_distance = SeqSum(d)
                  /\ ("total_duration_min" \in DOMAIN result) <=> all
                  /\ all => result.total_duration_min = Round2(SeqSum(t))

\* This step sends a request from a batch command.
AttemptStep == call'.site \in {"ors_pair", "_ors_distance_duration"}
\* This step finishes the current pair or edge.
ItemStep == bpc \in {"pair", "edge"} /\ call'.site = "none"

\* C17: with a credential and retry budget r, an attempt is made only while every
\* earlier attempt for the item returned None and fewer than r + 1 were made, and
\* an item is finished after at least 1 and at most r + 1 attempts.
C17_AttemptsWithinBudget ==
    [][ /\ AttemptStep
           => (api_key = "key" /\ pair = NoneRet /\ attempts <= opts.retries)
        /\ (ItemStep /\ api_key = "key")
           => (attempts >= 1 /\ attempts <= opts.retries + 1
               /\ (attempts <= opts.retries => pair # NoneRet))
      ]_vars

\* C17 witness: a second attempt succeeded after the first returned None.
C17_Witness ==
    /\ prog \in {"matrix", "refresh"}
    /\ opts.retries >= 1
    /\ attempts = 2
    /\ pair # NoneRet
    /\ call.kind = "ok"

\* C18: the entry appended for a pair has method "ors", the returned distance and
\* a duration exactly when an attempt for the pair returned a result, and method
\* "haversine", the haversine distance and no duration exactly when none did or
\* no credential is set; no entry has "ors" without a duration or "haversine"
\* with one.
C18_EntryMethodMatchesOutcome ==
    [][ (prog = "matrix" /\ ItemStep)
           => LET e == results'[Len(results')]
                  a == stops[i + 1]
                  b == stops[j + 1]
              IN  /\ results' = Append(results, e)
                  /\ e.from = a /\ e.to = b
                  /\ (e.method = "ors") <=> (pair # NoneRet)
                  /\ (e.method = "haversine") <=> (pair = NoneRet)
                  /\ (api_key = "") => (e.method = "haversine")
                  /\ (e.method = "ors")
                        => /\ e.distance_km = pair.distance_km
                           /\ e.duration_min # None
                  /\ (e.method = "haversine")
                        => /\ e.distance_km =
                                 haversine_km(busStops[a].latitude, busStops[a].longitude,
                                              busStops[b].latitude, busStops[b].longitude)
                           /\ e.duration_min = None
                  /\ \A k \in DOMAIN results' :
                        (results'[k].method = "ors") <=> (results'[k].duration_min # None)
      ]_vars

\* C18 witness: with a credential, one pair answered by the provider and one
\* estimated after the retries were used up.
C18_Witness ==
    /\ prog = "matrix" /\ api_key = "key" /\ opts.retries >= 1
    /\ Len(results) >= 2
    /\ results[1].method = "haversine"
    /\ results[2].method = "ors" /\ results[2].duration_min > 0

\* C19: with a positive sleep interval, a request of a batch run that is not the
\* run's first is preceded by a sleep taken after the request before it.
C19_SleepBetweenCalls ==
    [][ (AttemptStep /\ netUsed /\ opts.sleep_s > 0) => sleptSince ]_vars

\* C19 witness: a second attempt for the second edge of a refresh that sleeps.
C19_Witness ==
    /\ prog = "refresh" /\ opts.sleep_s > 0
    /\ call.site = "_ors_distance_duration"
    /\ idx = 2 /\ attempts = 2

\* C20: in an edge refresh, finishing an edge with a result and not dry stores
\* exactly that result in that edge's row and nothing else; no other step writes
\* the store; an edge not yet finished holds its row of before the run; a dry run
\* never writes.
C20_PerEdgeCommit ==
    [][ (prog = "refresh")
           => /\ IF ItemStep /\ pair # NoneRet /\ ~opts.dry
                 THEN /\ routes'[qs[idx]] = [distance |-> pair.distance_km,
                                             duration |-> pair.duration_min]
                      /\ \A e \in DOMAIN routes \ {qs[idx]} : routes'[e] = routes[e]
                      /\ DOMAIN routes' = DOMAIN routes
                      /\ \A k \in 1..(idx - 1) : qs[k] # qs[idx]
                 ELSE routes' = routes
              /\ \A e \in DOMAIN routes' \ {qs[k] : k \in 1..(idx' - 1)} :
                    routes'[e] = routesBefore[e]
              /\ opts.dry => routes' = routesBefore
      ]_vars

\* C20 witness: mid-run, not dry: the first edge holds the provider's answer, the
\* second, now being attempted, still holds its row of before the run.
C20_Witness ==
    /\ prog = "refresh" /\ ~opts.dry /\ bpc = "edge"
    /\ idx = 2 /\ attempts = 1
    /\ routes[qs[1]] = [distance |-> 2, duration |-> 250]
    /\ routes[qs[2]] = routesBefore[qs[2]]
    /\ routesBefore[qs[1]] # routes[qs[1]]

\* ---------------------------------------------------------------- C21 .. C29
\* C21: in an edge refresh, an edge is counted as skipped exactly when all
\* r + 1 attempts for it returned None; finishing it then leaves the whole store
\* and the updated counter as they were and adds one to skipped; no other step
\* changes skipped, and in a run that writes, skipped is the number of finished
\* edges that still hold their row of before the run.
C21_SkippedEdgeIsUntouched ==
    [][ (prog = "refresh")
           => /\ (ItemStep /\ pair = NoneRet)
                    => /\ attempts = opts.retries + 1
                       /\ skipped' = skipped + 1
                       /\ updated' = updated
                       /\ routes' = routes
              /\ ~(ItemStep /\ pair = NoneRet) => skipped' = skipped
              /\ (~opts.dry /\ bpc' \in {"edge", "finish", "done"})
                    => skipped' = Cardinality({k \in 1..(idx' - 1) :
                                                  routes'[qs'[k]] = routesBefore[qs'[k]]})
      ]_vars

\* C21 witness: a finished run that writes, with retries, in which the first edge
\* was updated and the second skipped.
C21_Witness ==
    /\ prog = "refresh" /\ bpc = "done" /\ ~opts.dry /\ opts.retries >= 1
    /\ Len(qs) >= 2
    /\ routes[qs[1]] # routesBefore[qs[1]]
    /\ routes[qs[2]] = routesBefore[qs[2]]
    /\ skipped = 1 /\ updated >= 1

Unset == {e \in DOMAIN routesBefore : routesBefore[e].distance <= 0}

\* C22: with --skip-existing and a credential, the edges of the pass all had a
\* stored distance <= 0 before the run (0 included), without a cap they are all of
\* those edges, a request is only ever sent for such an edge, and an edge with a
\* positive stored distance keeps its row.
C22_SkipExistingAttemptsUnsetOnly ==
    [][ (prog = "refresh" /\ opts.skip_existing /\ api_key' = "key")
           => /\ \A k \in DOMAIN qs' : qs'[k] \in Unset
              /\ (opts.limit = 0) => {qs'[k] : k \in DOMAIN qs'} = Unset
              /\ (opts.limit > 0)
                    => Len(qs') = IF Cardinality(Unset) < opts.limit
                                  THEN Cardinality(Unset) ELSE opts.limit
              /\ AttemptStep => qs[idx] \in Unset
              /\ \A e \in DOMAIN routes' \ Unset : routes'[e] = routesBefore[e]
      ]_vars

\* C22 witness: a finished pass beside an edge with a positive distance, in which
\* an edge stored with distance 0 was sent to the provider and updated.
C22_Witness ==
    /\ prog = "refresh" /\ opts.skip_existing /\ api_key = "key" /\ bpc = "done"
    /\ \E e \in DOMAIN routes : routesBefore[e].distance > 0
    /\ \E e \in DOMAIN routes :
          routesBefore[e].distance = 0 /\ routes[e] # routesBefore[e]

Arcs == UNION {{<<u, arc[1], arc[2]>> : arc \in graph[u]} : u \in DOMAIN graph}

\* C23: the graph built for a query has exactly one arc u -> v of weight distance
\* per Route row and no other; with the single edge a -> b the query (a, b)
\* returns the path [a, b] and the query (b, a) returns None.
C23_OneArcPerEdge ==
    graphBuilt
        => /\ Arcs = {<<e[1], e[2], routes[e].distance>> : e \in DOMAIN routes}
           /\ Cardinality(Arcs) = Cardinality(DOMAIN routes)
           /\ \A u \in DOMAIN graph : graph[u] # {}
           /\ (Returned /\ origin # destination /\ DOMAIN routes = {<<origin, destination>>})
                 => (ReturnedPath /\ result.path = <<origin, destination>>)
           /\ (Returned /\ origin # destination /\ DOMAIN routes = {<<destination, origin>>})
                 => result = NotFound

\* C23 witness: the only edge points from the destination to the origin, and the
\* query returned None.
C23_Witness ==
    /\ graphBuilt /\ origin # destination
    /\ DOMAIN routes = {<<destination, origin>>}
    /\ result = NotFound

\* The nodes met when following prev from v, at most n of them.
RECURSIVE PredChain(_, _)
PredChain(v, n) ==
    IF v = None \/ n = 0 THEN <<>> ELSE <<v>> \o PredChain(Get(prev, v), n - 1)

\* C24: at every step of the search prev and dist cover the same nodes, the
\* origin has no predecessor, every other node with a distance has a predecessor
\* with a distance, and following predecessors from it ends at the origin without
\* meeting a node twice.
C24_PredecessorsLeadToOrigin ==
    graphBuilt
        => /\ DOMAIN prev = DOMAIN dist
           /\ origin \in DOMAIN dist /\ prev[origin] = None
           /\ \A v \in DOMAIN dist \ {origin} :
                 /\ prev[v] \in DOMAIN dist
                 /\ LET c == PredChain(v, Cardinality(DOMAIN dist) + 1)
                    IN  /\ Len(c) <= Cardinality(DOMAIN dist)
                        /\ c[Len(c)] = origin
                        /\ \A a, b \in DOMAIN c : a # b => c[a] # c[b]

\* C24 witness: the search ran over a zero-length cycle through the origin and a
\* zero-length self-loop, and reached a node two steps away.
C24_Witness ==
    /\ graphBuilt /\ qpc = "after"
    /\ \E v \in DOMAIN dist : v # origin /\ prev[v] # origin
    /\ \E e \in DOMAIN routes : e[1] = e[2] /\ routes[e].distance = 0
    /\ \E e \in DOMAIN routes :
          /\ e[1] = origin /\ e[2] # origin /\ routes[e].distance = 0
          /\ <<e[2], e[1]>> \in DOMAIN routes /\ routes[<<e[2], e[1]>>].distance = 0

\* C25: once the destination is popped the loop is over and dist, prev, heap and
\* visited never change again; inside the loop only the popping of a node not yet
\* visited changes dist, prev or visited, and it marks that node visited, so each
\* node's arcs are relaxed at most once.
C25_SearchStopsAtDestination ==
    [][ (prog = "query")
           => /\ (qpc \in {"after", "returned", "responded", "raised"})
                    => UNCHANGED <<dist, prev, heap, visited>>
              /\ (qpc = "loop" /\ heap # {})
                    => LET u == HeapMin(heap)[2]
                       IN  /\ (u = destination)
                                 => (qpc' = "after" /\ dist' = dist /\ prev' = prev)
                           /\ (u \in visited) => UNCHANGED <<dist, prev, visited>>
                           /\ (dist' # dist \/ prev' # prev \/ visited' # visited)
                                 => (u \notin visited /\ visited' = visited \cup {u})
                           /\ (u # destination) => qpc' = "loop"
      ]_vars

\* C25 witness: the destination was settled while a queue entry was left and the
\* destination has an outgoing arc to a node without a distance.
C25_Witness ==
    /\ qpc = "after" /\ destination \in visited
    /\ heap # {}
    /\ \E arc \in Adjacent(destination) : arc[1] \notin DOMAIN dist

\* C26 as stated: when the enrichment's request fails, in whatever way, the view
\* answers 200 with the engine's result unchanged and nothing attached; when it
\* succeeds the answer is the result plus the one field "ors".
C26_EnrichmentFailureKeepsResult ==
    (prog = "query" /\ call.site = "ors_directions_for_stops")
        => /\ (call.kind \in FailureKinds)
                 => (qpc = "responded" /\ response = [status |-> 200, body |-> result])
           /\ (call.kind = "ok")
                 => /\ qpc = "responded" /\ response.status = 200
                    /\ DOMAIN response.body = DOMAIN result \cup {"ors"}
                    /\ \A f \in DOMAIN result : response.body[f] = result[f]

\* C27 as stated: the updated count in the statistics file of a finished edge
\* refresh is the number of edges the run overwrote in the store, a dry run
\* included.
C27_UpdatedCountsWrittenEdges ==
    (prog = "refresh" /\ bpc = "done" /\ api_key = "key")
        => statsFile.updated =
              Cardinality({e \in DOMAIN routes : routes[e] # routesBefore[e]})

\* C28 as stated: a request that names an id without a stored stop ends as
\* NotFound, with origin = destination as with distinct ids, and raises nothing.
C28_UnknownIdIsNotFound ==
    (prog = "query" /\ qpc \notin {"request", "loop", "after"}
       /\ (origin \notin DOMAIN busStops \/ destination \notin DOMAIN busStops))
        => (result = NotFound /\ qpc # "raised")

\* C29: every call of dijkstra_shortest_path returns (or raises); an entry is
\* pushed only for a node without a distance or with a strictly larger one; the
\* path handed back starts at the origin.
C29_SearchTerminates ==
    /\ <>(qpc \in {"returned", "raised"})
    /\ [][ \A e \in heap' \ heap : e[2] \notin DOMAIN dist \/ e[1] < dist[e[2]] ]_vars
    /\ [](ReturnedPath => (result.path[1] = origin
                           /\ result.path[Len(result.path)] = destination))

\* C29 witness: a path was returned from a store with a zero-length cycle through
\* the origin, a zero-length self-loop, and an entry left in the queue.
C29_Witness ==
    /\ ReturnedPath /\ origin # destination /\ heap # {}
    /\ \E e \in DOMAIN routes : e[1] = e[2] /\ routes[e].distance = 0
    /\ \E e \in DOMAIN routes :
          /\ e[1] = origin /\ e[2] # origin /\ routes[e].distance = 0
          /\ <<e[2], e[1]>> \in DOMAIN routes /\ routes[<<e[2], e[1]>>].distance = 0

====
